---- MODULE Spec2Model ----
(***************************************************************************)
(* Photon: the subpage Router (DOM/Router.ts), the injection frame         *)
(* (DOM/DomFrame.ts) and the component resolver (DOM/Components.ts,        *)
(* DOM/ComponentFactory.ts) as one state machine.                          *)
(*                                                                         *)
(* The browser runs one task at a time.  A task is a user call, an event   *)
(* or the arrival of a network response; the promise reactions a task      *)
(* queues run before the next task starts.  Each action below is one task  *)
(* or one promise reaction; while a reaction is pending no task starts.    *)
(***************************************************************************)
EXTENDS Integers, Sequences, FiniteSets, TLC

\* ------------------------------------------------------------------ bounds
MaxCalls == 3          \* setPage calls in one run, the constructor's included
MaxListeners == 1      \* listeners registered in one run
MaxOverlap == 2        \* setPage calls in one run of overlapping navigations
MaxAttrs == 2          \* attributes of one element of a component fragment
MaxChildren == 3       \* elements in a template placeholder, and in its output
MaxTimingCalls == 3    \* doOnce, doOnceSync and retriggerableDelay calls

\* ---------------------------------------------------- embedding application
Sitemap == {"home", "about"}       \* RouterOptions.sitemap
homeSite == "home"                 \* RouterOptions.homeSite
fallbackSite == homeSite           \* RouterOptions.fallbackSite
Unknown == {"nope"}                \* route strings absent from the sitemap
Pages == Sitemap \cup Unknown
NULL == "null"                     \* lastLocation before the first injection

\* ------------------------------------------------------------ the web server
VARIABLE site        \* the site the server holds: "plain", "linked" with
                     \* anchors in its pages, "selfref" with a fragment
                     \* that references itself, or "cycle" with two
                     \* fragments that reference each other

Fragments == {"card", "nav"}

El(n) == [k |-> "el", name |-> n, top |-> FALSE, id |-> 0, bound |-> 0]
Ph(n, t) == [k |-> "ph", name |-> n, top |-> t, id |-> 0, bound |-> 0]

\* <a route="...">; bound: the listeners linkAnchorsToRouter has given it.
Anchor(route) ==
  [k |-> "a", name |-> route, top |-> FALSE, id |-> 0, bound |-> 0]

\* /content/<route>.html, flattened in document order.  top: the placeholder
\* is a direct child of the mount.
PageHtml(p) ==
  IF site \in {"selfref", "cycle"}
  THEN IF p = "home" THEN <<Ph("card", TRUE)>>
       ELSE <<El("h1"), Ph("nav", FALSE)>>
  ELSE IF site = "linked"
  THEN IF p = "home" THEN <<Anchor("about"), Anchor("nope")>>
       ELSE <<Anchor("home"), Ph("nav", FALSE)>>
  ELSE IF p = "home" THEN <<Ph("card", TRUE), El("p"), Ph("card", FALSE)>>
  ELSE <<El("h1"), Ph("nav", FALSE)>>

\* /components/<name>.html: one root element and its descendants.
FragmentCode(n) ==
  IF site = "selfref" THEN <<Ph(n, FALSE)>>
  ELSE IF site = "cycle"
  THEN IF n = "nav" THEN <<Ph("card", FALSE)>> ELSE <<Ph("nav", FALSE)>>
  ELSE IF site = "linked"
  THEN IF n = "nav" THEN <<El("nav"), Anchor("home")>> ELSE <<El("card")>>
  ELSE IF n = "nav" THEN <<El("nav"), Ph("card", FALSE)>>
  ELSE <<El("card")>>

pageTitleToStoreLocation(newPage) == <<"content", newPage>>
location(component) == <<"components", component>>

\* The markup without the identities of its elements.
Plain(nodes) == [i \in DOMAIN nodes |-> [nodes[i] EXCEPT !.id = 0]]

\* ------------------------------------------------------------------- state
VARIABLES
  lastLocation,      \* Router.lastLocation
  eventMap,          \* Router.eventMap: type -> sequence of listeners
  hist,              \* window.history: the pageTitle of each entry
  hpos,              \* index of the current history entry
  classes,           \* sitemap-named classes of siteNameClassPushElement
  title,             \* document.title
  mount,             \* DomFrame.root: [src, nodes]
  permaCache,        \* DomFrame.permaCache: the locations it holds
  componentLibrary,  \* Components.componentLibrary: the names it holds
  calls,             \* the setPage calls in flight
  done,              \* the setPage calls that finished in the last step
  preloads,          \* preload fetches in flight
  gone,              \* placeholders that resolve() has removed
  nInjected,         \* 'injected' events fired so far
  dispatched,        \* the events the last step handed to listeners, each
                     \* with what getPage() returned at that moment
  nCalls,            \* setPage calls made from outside the Router so far
  nListeners,        \* addEventListener calls so far
  signals,           \* the listeners whose options.signal has an abort handler
  removals,          \* the listeners removeEventListener was called for
  saveData,          \* navigator.connection.saveData
  effectiveType,     \* navigator.connection.effectiveType
  doOnceIdempotency, \* __doOnceIdempotency: the keys it holds
  retriggerableDelayCache,  \* __retriggerableDelayCache: key -> timer id
  timingCalls,       \* the doOnce, doOnceSync and retriggerableDelay calls
  digests,           \* the calls whose hashAsync promise is pending
  timers,            \* the timers of window.setTimeout that are pending
  ran,               \* what each doOnce and doOnceSync call executed
  fired,             \* the calls whose timer has run the callback
  templateResolution,  \* Templates.resolveTemplates(root): root, the
                     \* library, the placeholders of the scan, the position
  factoryCode,       \* ComponentFactory.code: the elements of the fragment
  componentEl,       \* the placeholder handed to ComponentFactory.resolve
  wrapper,           \* the elements of the fragment after the substitution
  parentElement,     \* componentEl.parentElement: its child elements, the
                     \* placeholder's place among them, how resolve ended
  templateFactory    \* TemplateFactory.resolve: templateEl, attrMap, the
                     \* elements the template evaluates to, wrapper, parent
                     \* and the position of the call

\* One factory at work on one placeholder.
factoryVars == <<factoryCode, componentEl, wrapper, parentElement,
                 templateFactory>>

\* The module state of Timing and the calls made into it.
timingVars == <<doOnceIdempotency, retriggerableDelayCache, timingCalls,
                digests, timers, ran, fired>>

\* What the Router and the factories never write.
otherVars == <<site, effectiveType, timingVars, templateResolution>>

vars == <<lastLocation, eventMap, hist, hpos, classes, title, mount,
          permaCache, componentLibrary, calls, done, preloads, gone,
          nInjected, dispatched, nCalls, nListeners, signals, removals,
          saveData, factoryVars, otherVars>>

\* The state as one record, so that the operations below can be composed the
\* way the code calls them.
St ==
  [lastLocation |-> lastLocation, eventMap |-> eventMap, hist |-> hist,
   hpos |-> hpos, classes |-> classes, title |-> title, mount |-> mount,
   permaCache |-> permaCache, componentLibrary |-> componentLibrary,
   calls |-> calls, done |-> <<>>, preloads |-> preloads, gone |-> gone,
   nInjected |-> nInjected, dispatched |-> <<>>, nCalls |-> nCalls,
   nListeners |-> nListeners, signals |-> signals, removals |-> removals,
   saveData |-> saveData]

\* Element identities somebody still holds: the mount and the placeholder
\* arrays of the running resolution passes.
Referenced(s) ==
  {s.mount.nodes[i].id : i \in DOMAIN s.mount.nodes} \cup
  UNION {{s.calls[c].arr[i].id : i \in DOMAIN s.calls[c].arr} :
           c \in DOMAIN s.calls}

Commit(s) ==
  /\ lastLocation' = s.lastLocation
  /\ eventMap' = s.eventMap
  /\ hist' = s.hist
  /\ hpos' = s.hpos
  /\ classes' = s.classes
  /\ title' = s.title
  /\ mount' = s.mount
  /\ permaCache' = s.permaCache
  /\ componentLibrary' = s.componentLibrary
  /\ calls' = s.calls
  /\ done' = s.done
  /\ preloads' = s.preloads
  /\ gone' = s.gone \cap Referenced(s)
  /\ nInjected' = s.nInjected
  /\ dispatched' = s.dispatched
  /\ nCalls' = s.nCalls
  /\ nListeners' = s.nListeners
  /\ signals' = s.signals
  /\ removals' = s.removals
  /\ saveData' = s.saveData
  /\ UNCHANGED <<factoryVars, otherVars>>

\* ----------------------------------------------------------------- helpers
\* What a caller can observe of the page.
Snap(s) ==
  [mount |-> s.mount, lastLocation |-> s.lastLocation, title |-> s.title,
   classes |-> s.classes, hist |-> s.hist, hpos |-> s.hpos,
   nInjected |-> s.nInjected]

NoSnap ==
  [mount |-> [src |-> <<>>, nodes |-> <<>>], lastLocation |-> NULL,
   title |-> "", classes |-> {}, hist |-> <<>>, hpos |-> 0, nInjected |-> 0]

\* The n smallest identities nobody holds.
FreshIds(s, n) ==
  LET used == Referenced(s) \cup s.gone
      free == {x \in 1..(Cardinality(used) + n) : x \notin used}
  IN  [i \in 1..n |->
         CHOOSE x \in free : Cardinality({y \in free : y <= x}) = i]

NumPh(nodes) == Cardinality({i \in DOMAIN nodes : nodes[i].k = "ph"})

\* The parser gives every placeholder element of a markup a new identity.
WithIds(s, nodes) ==
  LET ids == FreshIds(s, NumPh(nodes))
      nth(i) == Cardinality({j \in 1..i : nodes[j].k = "ph"})
  IN  [i \in DOMAIN nodes |->
         IF nodes[i].k = "ph" THEN [nodes[i] EXCEPT !.id = ids[nth(i)]]
         ELSE nodes[i]]

\* root.innerHTML = html
setInnerHTML(s, src, html) ==
  [s EXCEPT !.mount = [src |-> src, nodes |-> WithIds(s, html)]]

\* A scan that sees only the children of the mount.
updateArrChildren(s) ==
  SelectSeq(s.mount.nodes, LAMBDA n : n.k = "ph" /\ n.top)

\* root.querySelectorAll("component[template]")
updateArr(s) == SelectSeq(s.mount.nodes, LAMBDA n : n.k = "ph")

IndexOf(nodes, id) ==
  IF \E i \in DOMAIN nodes : nodes[i].k = "ph" /\ nodes[i].id = id
  THEN CHOOSE i \in DOMAIN nodes : nodes[i].k = "ph" /\ nodes[i].id = id
  ELSE 0

\* --------------------------------------------------- DOM/ComponentFactory.ts
\* ComponentFactory.resolve(componentEl): the first top-level element of the
\* fragment is inserted before the placeholder in its parent and the
\* placeholder is removed.  parentElement is null, and the call throws, for a
\* placeholder that was already removed and for a direct child of the mount
\* whose markup has been replaced since.  A placeholder in a detached subtree
\* is replaced there, out of sight of the mount.
resolve(s, el) ==
  LET i == IndexOf(s.mount.nodes, el.id)
      code == WithIds(s, FragmentCode(el.name))
  IN  IF el.id \in s.gone THEN [s |-> s, threw |-> TRUE]
      ELSE IF i # 0
      THEN [s |-> [s EXCEPT !.mount.nodes =
                               SubSeq(@, 1, i - 1) \o code \o
                               SubSeq(@, i + 1, Len(@)),
                             !.gone = @ \cup {el.id}],
            threw |-> FALSE]
      ELSE IF el.top THEN [s |-> s, threw |-> TRUE]
      ELSE [s |-> [s EXCEPT !.gone = @ \cup {el.id}], threw |-> FALSE]

\* -------------------------------------------------------- DOM/DomFrame.ts
\* Call c has nothing left to run.
finish(s, c) ==
  [s EXCEPT !.done = Append(@, s.calls[c]),
            !.calls = [d \in DOMAIN @ \ {c} |-> @[d]]]

\* The promise of inject settles with r.  The valid-route path of setPage
\* has a reaction waiting on it; the unknown-route path dropped the promise.
settle(s, c, r, why) ==
  LET s1 == [s EXCEPT !.calls[c].r = IF r THEN "true" ELSE "false",
                      !.calls[c].fail = why,
                      !.calls[c].arr = <<>>,
                      !.calls[c].pc = "ready"]
  IN  IF s.calls[c].kind = "valid" THEN s1
      ELSE [s1 EXCEPT !.calls[c].pc = "dropped"]

\* ------------------------------------------------------ DOM/Components.ts
RECURSIVE resolveComponents(_, _)
\* A pass that fetches the fragment of every placeholder it visits.
resolveComponentsNoLibrary(s, c) ==
  LET call == s.calls[c] IN
  IF call.arr = <<>>
  THEN LET arr == updateArr(s) IN
       IF Len(arr) > 0
       THEN resolveComponents([s EXCEPT !.calls[c].arr = arr], c)
       ELSE settle(s, c, TRUE, "none")
  ELSE [s EXCEPT !.calls[c].pc = "comp",
                 !.calls[c].reqs = @ + 1,
                 !.calls[c].cf = Append(@, Head(call.arr).name)]

\* Components.resolveComponents(root), from the position call c's pass is at
\* up to its next await or its end.  arr: the placeholders of the current
\* scan that the for loop has not visited yet.
resolveComponents(s, c) ==
  LET call == s.calls[c] IN
  IF call.arr = <<>>
  THEN LET arr == updateArr(s) IN
       IF Len(arr) > 0
       THEN resolveComponents([s EXCEPT !.calls[c].arr = arr], c)
       ELSE settle(s, c, TRUE, "none")
  ELSE LET el == Head(call.arr) IN
       IF el.name \in s.componentLibrary
       THEN LET r == resolve(s, el) IN
            IF r.threw THEN settle(r.s, c, FALSE, "resolve")
            ELSE resolveComponents([r.s EXCEPT !.calls[c].arr = Tail(@)], c)
       ELSE [s EXCEPT !.calls[c].pc = "comp",
                      !.calls[c].reqs = @ + 1,
                      !.calls[c].cf = Append(@, el.name)]

\* A pass that reports success as soon as one fetched fragment is in place.
componentFetchedSettlesEarly(s, c, ok) ==
  LET el == Head(s.calls[c].arr)
      r == resolve(s, el)
  IN  IF ~ok THEN settle(s, c, FALSE, "component")
      ELSE IF r.threw THEN settle(r.s, c, FALSE, "resolve")
      ELSE settle([r.s EXCEPT !.componentLibrary = @ \cup {el.name}],
                  c, TRUE, "none")

\* A pass that takes its expansions back when a fragment fetch fails.
componentFetchedRollsBack(s, c, ok) ==
  LET el == Head(s.calls[c].arr)
      r == resolve(s, el)
  IN  IF ~ok
      THEN settle([s EXCEPT !.mount.nodes =
                              WithIds(s, PageHtml(s.mount.src[2]))],
                  c, FALSE, "component")
      ELSE IF r.threw THEN settle(r.s, c, FALSE, "resolve")
      ELSE resolveComponents(
             [r.s EXCEPT !.componentLibrary = @ \cup {el.name},
                         !.calls[c].arr = Tail(@)], c)

\* The response to the fragment fetch of call c's pass arrives.
componentFetched(s, c, ok) ==
  LET el == Head(s.calls[c].arr)
      r == resolve(s, el)
  IN  IF ~ok THEN settle(s, c, FALSE, "component")
      ELSE IF r.threw THEN settle(r.s, c, FALSE, "resolve")
      ELSE resolveComponents(
             [r.s EXCEPT !.componentLibrary = @ \cup {el.name},
                         !.calls[c].arr = Tail(@)], c)

\* An injection that empties the mount while the fetch is under way.
injectBlanksMount(s, c, content) ==
  IF content \in s.permaCache
  THEN resolveComponents(setInnerHTML(s, content, PageHtml(content[2])), c)
  ELSE [s EXCEPT !.calls[c].pc = "fetch", !.calls[c].reqs = @ + 1,
                 !.calls[c].content = content,
                 !.mount = [src |-> content, nodes |-> <<>>]]

\* DomFrame.inject(content), for the injection of call c.
inject(s, c, content) ==
  IF content \in s.permaCache
  THEN resolveComponents(setInnerHTML(s, content, PageHtml(content[2])), c)
  ELSE [s EXCEPT !.calls[c].pc = "fetch", !.calls[c].reqs = @ + 1,
                 !.calls[c].content = content]

\* An injection that mounts whatever body the response has.
pageFetchedMountsAny(s, c, ok) ==
  LET content == s.calls[c].content
      s1 == setInnerHTML(s, content, PageHtml(content[2]))
  IN  IF ok THEN resolveComponents(s1, c) ELSE settle(s1, c, FALSE, "page")

\* The response to the page fetch of call c's injection arrives.
pageFetched(s, c, ok) ==
  LET content == s.calls[c].content IN
  IF ok
  THEN resolveComponents(setInnerHTML(s, content, PageHtml(content[2])), c)
  ELSE settle(s, c, FALSE, "page")

\* DomFrame.preload(content): the request goes out.
preload(s, content) == [s EXCEPT !.preloads = @ \cup {content}]

\* A preload that puts the text it received into the mount.
preloadedMounts(s, content, ok) ==
  LET s1 == [s EXCEPT !.preloads = @ \ {content},
                      !.permaCache = IF ok THEN @ \cup {content} ELSE @]
  IN  IF ok THEN setInnerHTML(s1, content, PageHtml(content[2])) ELSE s1

\* The response to a preload arrives.
preloaded(s, content, ok) ==
  [s EXCEPT !.preloads = @ \ {content},
            !.permaCache = IF ok THEN @ \cup {content} ELSE @]

\* ---------------------------------------------------------- DOM/Router.ts
\* What a registered listener does with the event it is given, and the
\* options it was registered with.
Listeners ==
  {[act |-> "noop", passive |-> FALSE, once |-> TRUE],
   [act |-> "preventDefault", passive |-> FALSE, once |-> FALSE],
   [act |-> "preventDefault", passive |-> TRUE, once |-> FALSE],
   [act |-> "throw", passive |-> FALSE, once |-> FALSE],
   [act |-> "throw", passive |-> FALSE, once |-> TRUE]}

EventTypes == {"inject", "injected"}

RemoveAt(seq, rem) ==
  LET f[i \in 0..Len(seq)] ==
        IF i = 0 THEN <<>>
        ELSE IF i \in rem THEN f[i - 1] ELSE Append(f[i - 1], seq[i])
  IN  f[Len(seq)]

RECURSIVE forEach(_, _, _, _, _)
\* The forEach of triggerEvent from listener i on.  RouterEvent.preventDefault
\* runs the cancel callback when the event is cancelable and throws when it
\* is not; an exception ends the dispatch.
forEach(evArr, i, cancelable, cancel, acc) ==
  IF i > Len(evArr) THEN acc
  ELSE LET l == evArr[i]
           next == IF l.once THEN [acc EXCEPT !.remArr = @ \cup {i}] ELSE acc
       IN  IF l.act = "throw" THEN [acc EXCEPT !.threw = TRUE]
           ELSE IF l.act = "preventDefault"
           THEN IF ~l.passive /\ cancelable
                THEN forEach(evArr, i + 1, cancelable, cancel,
                             [next EXCEPT !.canceled = @ \/ cancel])
                ELSE [acc EXCEPT !.threw = TRUE]
           ELSE forEach(evArr, i + 1, cancelable, cancel, next)

\* Router.triggerEvent(type, cancelable, isTrusted, value, _, cancel)
triggerEvent(s, type, cancelable, value, cancel) ==
  LET r == forEach(s.eventMap[type], 1, cancelable, cancel,
                   [canceled |-> FALSE, threw |-> FALSE, remArr |-> {}])
      s0 == IF type = "injected" THEN [s EXCEPT !.nInjected = @ + 1] ELSE s
      s1 == IF Len(s.eventMap[type]) = 0 THEN s0
            ELSE [s0 EXCEPT !.dispatched =
                    Append(@, [type |-> type, value |-> value,
                               getPage |-> s.lastLocation])]
  IN  [s |-> IF r.threw THEN s1
             ELSE [s1 EXCEPT !.eventMap[type] = RemoveAt(@, r.remArr)],
       canceled |-> r.canceled, threw |-> r.threw]

\* Router.replaceState(newPage)
\* Router.linkAnchorsToRouter(root): every a[route] of the mount whose route
\* is in the sitemap gets one more listener.
linkAnchorsToRouter(s) ==
  LET nodes == s.mount.nodes
  IN  [s EXCEPT !.mount.nodes =
         [i \in DOMAIN nodes |->
            IF nodes[i].k = "a" /\ nodes[i].name \in Sitemap
            THEN [nodes[i] EXCEPT !.bound = @ + 1]
            ELSE nodes[i]]]

replaceState(s, newPage) == [s EXCEPT !.hist[s.hpos] = newPage]

\* Router.pushState(newPage), called by call c
pushState(s, c, newPage) ==
  LET s1 == [s EXCEPT !.calls[c].wrote = TRUE] IN
  IF s.lastLocation = NULL THEN replaceState(s1, newPage)
  ELSE [s1 EXCEPT !.hist = Append(SubSeq(@, 1, s.hpos), newPage),
                  !.hpos = @ + 1]

\* Router.preloadSubpages()
preloadSubpages(s) ==
  IF s.saveData THEN s
  ELSE [s EXCEPT !.preloads =
          @ \cup {pageTitleToStoreLocation(el) : el \in Sitemap}]

\* res() of call c's promise; the constructor chained preloadSubpages to it.
res(s, c) ==
  LET s1 == [s EXCEPT !.calls[c].promise = "resolved"] IN
  IF s.calls[c].promise # "pending" THEN s
  ELSE IF s.calls[c].by = "ctor" THEN preloadSubpages(s1)
  ELSE s1

\* The executor of setPage threw: the promise rejects unless it has settled.
rej(s, c) ==
  [s EXCEPT !.calls[c].promise = IF @ = "pending" THEN "rejected" ELSE @]

NewCall(s, newPage, setState, by, pop) ==
  [page |-> newPage, content |-> <<>>,
   kind |-> IF newPage \in Sitemap THEN "valid" ELSE "unknown",
   setState |-> setState, by |-> by, pop |-> pop,
   pc |-> "executor", promise |-> "pending", r |-> "none", fail |-> "none",
   canceled |-> FALSE, wrote |-> FALSE, spawned |-> FALSE,
   arr |-> <<>>, reqs |-> 0, cf |-> <<>>,
   solo |-> DOMAIN s.calls = {},
   repeat |-> /\ DOMAIN s.calls = {}
              /\ s.lastLocation = newPage
              /\ s.mount.src = pageTitleToStoreLocation(newPage),
   pre |-> Snap(s)]

\* An unknown-route path that injects the requested page, not the fallback.
notInSitemapNoFallback(s, c, newPage, setState) ==
  LET s2 == IF setState /\ s.lastLocation # newPage
            THEN pushState(s, c, newPage) ELSE s
      s3 == inject(s2, c, pageTitleToStoreLocation(newPage))
      s4 == [s3 EXCEPT !.classes = @ \ Sitemap,
                       !.lastLocation = fallbackSite]
      ev == triggerEvent(s4, "injected", FALSE, fallbackSite, FALSE)
      s5 == IF ev.threw THEN rej(ev.s, c) ELSE ev.s
  IN  IF s5.calls[c].pc = "dropped" THEN finish(s5, c) ELSE s5

\* Router.setPage, lines 276-290: newPage is not in the sitemap.
notInSitemap(s, c, newPage, setState) ==
  LET s2 == IF setState /\ s.lastLocation # newPage
            THEN pushState(s, c, newPage) ELSE s
      s3 == inject(s2, c, pageTitleToStoreLocation(fallbackSite))
      s4 == [linkAnchorsToRouter([s3 EXCEPT !.classes = @ \ Sitemap])
               EXCEPT !.lastLocation = fallbackSite]
      ev == triggerEvent(s4, "injected", FALSE, fallbackSite, FALSE)
      s5 == IF ev.threw THEN rej(ev.s, c) ELSE ev.s
  IN  IF s5.calls[c].pc = "dropped" THEN finish(s5, c) ELSE s5

\* A setPage that goes on after a listener has canceled.
setPageIgnoresCancel(s, newPage, setState, by, pop) ==
  LET c == CHOOSE n \in 1..(Cardinality(DOMAIN s.calls) + 1) :
             n \notin DOMAIN s.calls
      s0 == [s EXCEPT !.calls =
               [d \in DOMAIN @ \cup {c} |->
                  IF d = c THEN NewCall(s, newPage, setState, by, pop)
                  ELSE [@[d] EXCEPT !.solo = FALSE, !.pre = NoSnap]]]
      ev == triggerEvent(s0, "inject", TRUE, newPage, TRUE)
      s1 == IF ev.canceled
            THEN res([ev.s EXCEPT !.calls[c].canceled = TRUE], c)
            ELSE ev.s
  IN  IF ev.threw THEN finish(rej(s1, c), c)
      ELSE IF newPage \notin Sitemap
      THEN notInSitemap(s1, c, newPage, setState)
      ELSE inject(s1, c, pageTitleToStoreLocation(newPage))

\* Router.setPage(newPage, setState), up to the return of the executor.
setPage(s, newPage, setState, by, pop) ==
  LET c == CHOOSE n \in 1..(Cardinality(DOMAIN s.calls) + 1) :
             n \notin DOMAIN s.calls
      s0 == [s EXCEPT !.calls =
               [d \in DOMAIN @ \cup {c} |->
                  IF d = c THEN NewCall(s, newPage, setState, by, pop)
                  ELSE [@[d] EXCEPT !.solo = FALSE, !.pre = NoSnap]]]
      ev == triggerEvent(s0, "inject", TRUE, newPage, TRUE)
      s1 == IF ev.canceled
            THEN res([ev.s EXCEPT !.calls[c].canceled = TRUE], c)
            ELSE ev.s
  IN  IF ev.threw THEN finish(rej(s1, c), c)
      ELSE IF ev.canceled THEN finish(s1, c)
      ELSE IF newPage \notin Sitemap
      THEN notInSitemap(s1, c, newPage, setState)
      ELSE inject(s1, c, pageTitleToStoreLocation(newPage))

\* An update that forgets lastLocation.
showPageKeepsLocation(s, c, newPage, setState) ==
  LET s1 == IF setState /\ s.lastLocation # newPage
            THEN pushState(s, c, newPage) ELSE s
  IN  [s1 EXCEPT !.title = newPage,
                 !.classes = (@ \ Sitemap) \cup {newPage}]

\* Router.setPage, lines 296-314: the injection of newPage has succeeded.
showPage(s, c, newPage, setState) ==
  LET s1 == IF setState /\ s.lastLocation # newPage
            THEN pushState(s, c, newPage) ELSE s
  IN  [linkAnchorsToRouter([s1 EXCEPT !.title = newPage,
                                      !.classes = (@ \ Sitemap) \cup {newPage}])
         EXCEPT !.lastLocation = newPage]

\* The reactions setPage chained to the injection of call c: then(r), and
\* catch(err) for what then(r) throws.
injectThen(s, c) ==
  LET call == s.calls[c]
      newPage == call.page
      ev == triggerEvent(showPage(s, c, newPage, call.setState),
                         "injected", FALSE, newPage, FALSE)
  IN  IF call.r # "true" THEN finish(res(s, c), c)
      ELSE IF ~ev.threw THEN finish(res(ev.s, c), c)
      ELSE IF newPage # fallbackSite
      THEN finish(res(setPage([ev.s EXCEPT !.calls[c].spawned = TRUE,
                                           !.calls[c].pc = "catch"],
                              fallbackSite, TRUE, "fallback", call.pop), c),
                  c)
      ELSE finish(res(ev.s, c), c)

\* ------------------------------------------------------------ construction
\* The document before the Router exists.
Blank(sd) ==
  [lastLocation |-> NULL,
   eventMap |-> [inject |-> <<>>, injected |-> <<>>],
   hist |-> <<NULL>>, hpos |-> 1, classes |-> {}, title |-> "document",
   mount |-> [src |-> <<"document", "index">>, nodes |-> <<El("main")>>],
   permaCache |-> {}, componentLibrary |-> {},
   calls |-> <<>>, done |-> <<>>,
   preloads |-> {}, gone |-> {},
   nInjected |-> 0, dispatched |-> <<>>, nCalls |-> 1, nListeners |-> 0,
   signals |-> {}, removals |-> {}, saveData |-> sd]

\* new Router(options), with location.pathname naming path: the constructor
\* calls setPage(getCurrentSubPageName() || homeSite, true).
constructor(path, sd) == setPage(Blank(sd), path, TRUE, "ctor", FALSE)

InitAs(s) ==
  /\ lastLocation = s.lastLocation
  /\ eventMap = s.eventMap
  /\ hist = s.hist
  /\ hpos = s.hpos
  /\ classes = s.classes
  /\ title = s.title
  /\ mount = s.mount
  /\ permaCache = s.permaCache
  /\ componentLibrary = s.componentLibrary
  /\ calls = s.calls
  /\ done = s.done
  /\ preloads = s.preloads
  /\ gone = s.gone
  /\ nInjected = s.nInjected
  /\ dispatched = s.dispatched
  /\ nCalls = s.nCalls
  /\ nListeners = s.nListeners
  /\ signals = s.signals
  /\ removals = s.removals
  /\ saveData = s.saveData

\* No ComponentFactory is at work.
NoComponentFactory ==
  /\ factoryCode = <<>>
  /\ componentEl = [attributes |-> <<>>, innerHTML |-> <<>>]
  /\ wrapper = <<>>
  /\ parentElement = [children |-> <<>>, before |-> <<>>, at |-> 0,
                      pc |-> "idle"]

\* No TemplateFactory is at work.
NoTemplateFactory ==
  templateFactory = [templateEl |-> <<>>, attrMap |-> <<>>, output |-> <<>>,
                     wrapper |-> <<>>, parent |-> <<>>, pc |-> "idle"]

NoFactory == NoComponentFactory /\ NoTemplateFactory

\* No resolveTemplates pass has been asked for.
NoTemplates ==
  templateResolution = [root |-> <<>>, templateLibrary |-> {},
                        templatePlaceholders |-> <<>>, pc |-> "idle",
                        serial |-> 0]

\* A connection of the best class.
FastConnection == effectiveType = "4g"

\* The Timing module as loaded: empty key set, empty timer cache, no call.
NoTiming ==
  /\ doOnceIdempotency = {}
  /\ retriggerableDelayCache = <<>>
  /\ timingCalls = <<>>
  /\ digests = <<>>
  /\ timers = {}
  /\ ran = <<>>
  /\ fired = <<>>

Init ==
  /\ site = "plain"
  /\ FastConnection
  /\ NoTiming
  /\ NoTemplates
  /\ \E path \in Pages, sd \in BOOLEAN : InitAs(constructor(path, sd))
  /\ NoFactory

\* ----------------------------------------------------------------- actions
NoReaction == \A c \in DOMAIN calls : calls[c].pc # "ready"

\* The injection of an unknown-route call has settled: nothing waits for it.
drop(s, c) == IF s.calls[c].pc = "dropped" THEN finish(s, c) ELSE s

\* A caller, or an intercepted anchor, calls setPage while no navigation is
\* in flight.
SetPage ==
  /\ DOMAIN calls = {}
  /\ nCalls < MaxCalls
  /\ \E newPage \in Pages, setState \in BOOLEAN :
       Commit(setPage([St EXCEPT !.nCalls = @ + 1],
                      newPage, setState, "user", FALSE))

\* Router.onPopState(ev): the browser has moved to history entry k while no
\* navigation is in flight.
OnPopState ==
  /\ DOMAIN calls = {}
  /\ nCalls < MaxCalls
  /\ \E k \in DOMAIN hist :
       /\ k # hpos
       /\ hist[k] # NULL
       /\ Commit(setPage([St EXCEPT !.hpos = k, !.nCalls = @ + 1],
                         hist[k], FALSE, "pop", TRUE))

PageFetched ==
  /\ NoReaction
  /\ \E c \in DOMAIN calls, ok \in BOOLEAN :
       /\ calls[c].pc = "fetch"
       /\ Commit(drop(pageFetched(St, c, ok), c))

ComponentFetched ==
  /\ NoReaction
  /\ \E c \in DOMAIN calls, ok \in BOOLEAN :
       /\ calls[c].pc = "comp"
       /\ Commit(drop(componentFetched(St, c, ok), c))

InjectThen ==
  \E c \in DOMAIN calls :
    /\ calls[c].pc = "ready"
    /\ Commit(injectThen(St, c))

Preloaded ==
  /\ NoReaction
  /\ \E content \in preloads, ok \in BOOLEAN :
       Commit(preloaded(St, content, ok))

\* Router.addEventListener(type, listener, options)
AddEventListener ==
  /\ NoReaction
  /\ nListeners < MaxListeners
  /\ \E type \in EventTypes, l \in Listeners :
       Commit([St EXCEPT !.eventMap[type] = Append(@, l),
                         !.nListeners = @ + 1])

Next ==
  \/ SetPage
  \/ OnPopState
  \/ PageFetched
  \/ ComponentFetched
  \/ InjectThen
  \/ Preloaded
  \/ AddEventListener

\* Navigations that follow one another.
Spec == Init /\ [][Next]_vars

\* A caller calls setPage, whatever is in flight.
SetPageOverlap ==
  /\ NoReaction
  /\ nCalls < MaxOverlap
  /\ \E newPage \in Pages, setState \in BOOLEAN :
       Commit(setPage([St EXCEPT !.nCalls = @ + 1],
                      newPage, setState, "user", FALSE))

NextOverlap ==
  \/ SetPageOverlap
  \/ PageFetched
  \/ ComponentFetched
  \/ InjectThen
  \/ Preloaded

\* Navigations that overlap, on a Router without listeners.
SpecOverlap == Init /\ [][NextOverlap]_vars

InitAnchors ==
  /\ site = "linked"
  /\ FastConnection
  /\ NoTiming
  /\ NoTemplates
  /\ \E path \in Pages, sd \in BOOLEAN : InitAs(constructor(path, sd))
  /\ NoFactory

\* The same navigations on the site whose pages hold anchors.
SpecAnchors == InitAnchors /\ [][NextOverlap]_vars

\* Symbol(description): every call makes a symbol of its own; serial tells
\* the calls apart.
Symbol(description, serial) ==
  [description |-> description, serial |-> serial]

\* listener.toString(): the source text of the listener.
toString(listener) == listener.act

\* The options object a listener was registered with.
options(listener) == [passive |-> listener.passive, once |-> listener.once]

\* Router.removeEventListener(type, listener, options): the findIndex over
\* the listeners of the type, which splices where its test holds.
removeEventListener(s, type, listener) ==
  LET evArr == s.eventMap[type]
      found == {i \in DOMAIN evArr :
                  /\ Symbol(toString(evArr[i]), 2 * i - 1) =
                       Symbol(toString(listener), 2 * i)
                  /\ options(listener) = options(evArr[i])}
  IN  [s EXCEPT !.eventMap[type] = RemoveAt(@, found),
                !.removals = @ \cup {[type |-> type, listener |-> listener]}]

\* Router.addEventListener(type, listener, options), with or without an
\* AbortSignal in options.signal.
AddEventListenerOptions ==
  /\ NoReaction
  /\ nListeners < MaxListeners
  /\ \E type \in EventTypes, l \in Listeners, signal \in BOOLEAN :
       LET x == [type |-> type, listener |-> l] IN
       Commit([St EXCEPT !.eventMap[type] = Append(@, l),
                         !.nListeners = @ + 1,
                         !.removals = @ \ {x},
                         !.signals = IF signal THEN @ \cup {x} ELSE @])

\* A caller removes a listener with the arguments it was added with.
RemoveEventListener ==
  /\ NoReaction
  /\ \E type \in EventTypes :
       \E i \in DOMAIN eventMap[type] :
         Commit(removeEventListener(St, type, eventMap[type][i]))

\* The AbortSignal a listener was added with aborts: its abort handler calls
\* removeEventListener.
Abort ==
  /\ NoReaction
  /\ \E x \in signals :
       Commit(removeEventListener([St EXCEPT !.signals = @ \ {x}],
                                  x.type, x.listener))

NextListeners ==
  \/ AddEventListenerOptions
  \/ RemoveEventListener
  \/ Abort
  \/ SetPageOverlap
  \/ PageFetched
  \/ ComponentFetched
  \/ InjectThen

\* Navigations on a Router whose listeners come and go; the preload
\* requests stay unanswered.
SpecListeners == Init /\ [][NextListeners]_vars

\* The connection classes navigator.connection.effectiveType reports.
EffectiveTypes == {"slow-2g", "2g", "3g", "4g"}

InitConnection ==
  /\ site = "plain"
  /\ effectiveType \in EffectiveTypes
  /\ NoTiming
  /\ NoTemplates
  /\ \E path \in Pages, sd \in BOOLEAN : InitAs(constructor(path, sd))
  /\ NoFactory

\* The same navigations on a device of any connection class.
SpecConnection == InitConnection /\ [][NextOverlap]_vars


\* ------------------------------------- DOM/ComponentFactory.ts: variables
\* A string is the sequence of its characters; a name counts as one
\* character.
startsWith(str, ch) == Len(str) > 0 /\ str[1] = ch
endsWith(str, ch) == Len(str) > 0 /\ str[Len(str)] = ch
substr(str, from, length) == SubSeq(str, from + 1, from + length)

Attr(n, v) == [name |-> n, value |-> v]

\* An element of a fragment: its attributes, the text it holds and the
\* element it is a child of (0: the wrapper).  replaced: its inner markup has
\* been assigned, which takes its children out of the fragment.
Element(attrs, txt, par) ==
  [attributes |-> attrs, text |-> txt, parent |-> par, replaced |-> FALSE]

\* attrMap: the placeholder's attributes by name, and its inner markup under
\* "content".
attrMap(el) ==
  LET names == {el.attributes[i].name : i \in DOMAIN el.attributes}
                 \cup {"content"}
  IN  [key \in {<<n>> : n \in names} |->
         IF key = <<"content">> THEN el.innerHTML
         ELSE el.attributes[CHOOSE i \in DOMAIN el.attributes :
                              el.attributes[i].name = key[1]].value]

RECURSIVE forAttributes(_, _, _)
RECURSIVE forAttributesByVariable(_, _, _)
\* The loop with the variable's name, not the attribute's, selecting the
\* inner markup.
forAttributesByVariable(el, i, map) ==
  IF i > Len(el.attributes) THEN el
  ELSE LET attr == el.attributes[i]
           varName == substr(attr.value, 1, Len(attr.value) - 2)
           next ==
             IF startsWith(attr.value, "{") /\ endsWith(attr.value, "}")
             THEN IF varName \in DOMAIN map
                  THEN IF varName = <<"content">>
                       THEN [el EXCEPT !.text = map[varName],
                                       !.replaced = TRUE]
                       ELSE [el EXCEPT !.attributes[i].value = map[varName]]
                  ELSE [el EXCEPT !.attributes[i].value = <<"undefined">>]
             ELSE el
       IN  forAttributesByVariable(next, i + 1, map)

\* for (const attr of el.attributes), from the i-th attribute on
forAttributes(el, i, map) ==
  IF i > Len(el.attributes) THEN el
  ELSE LET attr == el.attributes[i]
           varName == substr(attr.value, 1, Len(attr.value) - 2)
           next ==
             IF startsWith(attr.value, "{") /\ endsWith(attr.value, "}")
             THEN IF varName \in DOMAIN map
                  THEN IF attr.name = "content"
                       THEN [el EXCEPT !.text = map[varName],
                                       !.replaced = TRUE]
                       ELSE [el EXCEPT !.attributes[i].value = map[varName]]
                  ELSE [el EXCEPT !.attributes[i].value = <<"undefined">>]
             ELSE el
       IN  forAttributes(next, i + 1, map)

\* The loop over the first element only.
substituteFirstOnly(fragment, el) ==
  [j \in DOMAIN fragment |->
     IF j = 1 THEN forAttributes(fragment[j], 1, attrMap(el))
     ELSE fragment[j]]

\* for (const el of wrapper.querySelectorAll("*")): the list is made before
\* the loop, so an element taken out of the fragment is still visited.
substitute(fragment, el) ==
  [j \in DOMAIN fragment |-> forAttributes(fragment[j], 1, attrMap(el))]

RECURSIVE Detached(_, _)
\* Element j is no longer in the fragment: the inner markup of an ancestor
\* has been assigned.
Detached(w, j) ==
  /\ w[j].parent # 0
  /\ w[w[j].parent].replaced \/ Detached(w, w[j].parent)

\* The inner markup of a childless element.
innerHTML(w, j) == w[j].text

\* ---------------------------------------------------- fragments on trial
AttrNames == {"attr", "content", "id"}
AttrValues ==
  {<<"{", "v", "}">>, <<"{", "content", "}">>, <<"{", "v">>, <<"A">>}
Attrs == {Attr(n, v) : n \in AttrNames, v \in AttrValues}

\* The attribute lists of at most n attributes; a name occurs once.
AttrLists(n) ==
  UNION {{as \in [1..k -> Attrs] :
            \A i, j \in 1..k : as[i].name = as[j].name => i = j} : k \in 0..n}

Texts == {<<>>, <<"{", "content", "}">>}

\* One element, or one element with one child, or two top-level elements,
\* or a source without an element.
FragmentCodes ==
  LET roots == {Element(as, txt, 0) : as \in AttrLists(MaxAttrs), txt \in Texts}
      kids == {Element(as, <<>>, 1) : as \in AttrLists(MaxAttrs)}
  IN  {<<r>> : r \in roots} \cup
      {<<[r EXCEPT !.text = <<>>], k>> : r \in roots, k \in kids} \cup
      {<<Element(<<>>, txt, 0), Element(<<>>, <<>>, 0)>> : txt \in Texts} \cup
      {<<>>}

Placeholders ==
  {[attributes |-> <<Attr("template", <<"x">>), Attr("v", <<"A">>)>>,
    innerHTML |-> <<"B">>],
   [attributes |-> <<Attr("template", <<"x">>), Attr("content", <<"C">>)>>,
    innerHTML |-> <<"B">>]}

routerVars == <<lastLocation, eventMap, hist, hpos, classes, title, mount,
                permaCache, componentLibrary, calls, done, preloads, gone,
                nInjected, dispatched, nCalls, nListeners, signals, removals,
                saveData>>

\* The placeholder as a child element of its parent.
placeholderElement(el) == Element(el.attributes, el.innerHTML, 0)

\* The child elements of the placeholder's parent, the mount root: the
\* placeholder between two siblings.
ParentElements(el) ==
  {[children |-> chs, before |-> chs,
    at |-> CHOOSE i \in DOMAIN chs : chs[i] = placeholderElement(el),
    pc |-> "call"] :
     chs \in {<<Element(<<>>, <<"h1">>, 0), placeholderElement(el),
                Element(<<>>, <<"footer">>, 0)>>}}

\* parent.insertBefore(wrapper.children[0]!, componentEl) and
\* componentEl.remove().  The top-level elements of the fragment are those
\* with parent 0; without one wrapper.children[0] is undefined, which
\* insertBefore refuses with a TypeError.
insertBeforeAndRemove(par, w) ==
  LET children == SelectSeq(w, LAMBDA x : x.parent = 0)
  IN  IF children = <<>> THEN [par EXCEPT !.pc = "threw"]
      ELSE [par EXCEPT !.children = SubSeq(@, 1, par.at - 1) \o
                                    <<children[1]>> \o
                                    SubSeq(@, par.at + 1, Len(@)),
                       !.pc = "returned"]

InitComponent ==
  /\ site = "plain"
  /\ FastConnection
  /\ NoTiming
  /\ NoTemplates
  /\ InitAs(Blank(FALSE))
  /\ NoTemplateFactory
  /\ factoryCode \in FragmentCodes
  /\ componentEl \in Placeholders
  /\ wrapper = <<>>
  /\ parentElement \in ParentElements(componentEl)

\* ComponentFactory.resolve(componentEl)
ResolveComponent ==
  /\ parentElement.pc = "call"
  /\ wrapper' = substitute(factoryCode, componentEl)
  /\ parentElement' = insertBeforeAndRemove(parentElement, wrapper')
  /\ UNCHANGED <<routerVars, factoryCode, componentEl, templateFactory, otherVars>>

NextComponent == ResolveComponent

\* One ComponentFactory, one placeholder.
SpecComponent == InitComponent /\ [][NextComponent]_vars


\* ------------------------------------------------- DOM/TemplateFactory.ts
\* A value of the data map: a string, or an array of strings.
AString(txt) == [isArray |-> FALSE, items |-> <<txt>>]
AnArray(txts) == [isArray |-> TRUE, items |-> txts]

\* attrMap.set(key, value)
set(map, key, value) ==
  [k \in DOMAIN map \cup {key} |-> IF k = key THEN value ELSE map[k]]

RECURSIVE resNode(_, _, _)
RECURSIVE resNodeOverwrite(_, _, _)
\* The walk with a later element of a name taking the place of an earlier.
resNodeOverwrite(children, i, map) ==
  IF i > Len(children) THEN map
  ELSE LET el == children[i] IN
       IF ~el.leaf \/ el.text = "" THEN resNodeOverwrite(children, i + 1, map)
       ELSE resNodeOverwrite(children, i + 1,
                         set(map, el.nodeName, AString(el.text)))

\* res(resEl: Node): the walk over the elements of the placeholder, given in
\* document order.  An element that has child elements is descended into,
\* which in document order is a step to the next element; a childless one
\* with text is recorded under its nodeName.
resNode(children, i, map) ==
  IF i > Len(children) THEN map
  ELSE LET el == children[i] IN
       IF ~el.leaf \/ el.text = "" THEN resNode(children, i + 1, map)
       ELSE IF el.nodeName \notin DOMAIN map
       THEN resNode(children, i + 1, set(map, el.nodeName, AString(el.text)))
       ELSE LET v == map[el.nodeName] IN
            IF v.isArray
            THEN resNode(children, i + 1,
                     set(map, el.nodeName, AnArray(Append(v.items, el.text))))
            ELSE resNode(children, i + 1,
                     set(map, el.nodeName, AnArray(<<v.items[1], el.text>>)))

Node(tag, n) == [tagName |-> tag, n |-> n]
TemplateNode == Node("TEMPLATE", 0)

Position(seq, x) == CHOOSE i \in DOMAIN seq : seq[i] = x

\* parent.insertBefore(ch, templateEl): ch leaves the place it is in, if
\* any, and enters the parent before the placeholder.
insertBefore(tf, ch) ==
  LET i == Position(tf.parent, TemplateNode)
  IN  [tf EXCEPT !.wrapper = SelectSeq(@, LAMBDA x : x # ch),
                 !.parent = SubSeq(@, 1, i - 1) \o <<ch>> \o
                            SubSeq(@, i, Len(@))]

RECURSIVE forChildren(_, _)
\* for (const ch of Array.from(wrapper.children))
forChildren(tf, chs) ==
  IF chs = <<>> THEN tf
  ELSE LET ch == Head(chs)
           removed == IF ch.tagName = "SCRIPT"
                      THEN [tf EXCEPT !.wrapper =
                                        SelectSeq(@, LAMBDA x : x # ch)]
                      ELSE tf
       IN  forChildren(insertBefore(removed, ch), Tail(chs))

\* TemplateFactory.resolve(templateEl); the template evaluates to the
\* elements tf.output.
resolveTemplate(tf) ==
  LET tf1 == [tf EXCEPT !.attrMap = resNode(tf.templateEl, 1, <<>>)]
      tf1w == [tf1 EXCEPT !.wrapper = tf.output]
      tf2 == IF tf1w.parent # <<>> THEN forChildren(tf1w, tf1w.wrapper)
             ELSE tf1w
  IN  [tf2 EXCEPT !.parent = SelectSeq(@, LAMBDA x : x # TemplateNode),
                  !.pc = "return"]

\* ---------------------------------------------------- templates on trial
VarNames == {"var1", "var2"}
VarTexts == {"", "a", "b"}
VarElements ==
  {[nodeName |-> n, text |-> txt, leaf |-> TRUE] :
     n \in VarNames, txt \in VarTexts} \cup
  {[nodeName |-> n, text |-> "", leaf |-> FALSE] : n \in VarNames}

\* The elements of a placeholder in document order: one that has child
\* elements is followed by the first of them.
TemplateEls ==
  UNION {{els \in [1..k -> VarElements] :
            \A i \in 1..k : ~els[i].leaf => i < k} : k \in 0..MaxChildren}

OutputTags == {"P", "SCRIPT"}
WrapperChildren ==
  UNION {{[i \in 1..k |-> Node(tags[i], i)] : tags \in [1..k -> OutputTags]} :
           k \in 0..MaxChildren}

\* The placeholder between two siblings, or in no parent.
Parents == {<<Node("H1", 0), TemplateNode, Node("FOOTER", 0)>>, <<>>}

InitTemplate ==
  /\ site = "plain"
  /\ FastConnection
  /\ NoTiming
  /\ NoTemplates
  /\ InitAs(Blank(FALSE))
  /\ NoComponentFactory
  /\ \E els \in TemplateEls, chs \in WrapperChildren, par \in Parents :
       templateFactory = [templateEl |-> els, attrMap |-> <<>>,
                          output |-> chs, wrapper |-> <<>>, parent |-> par,
                          pc |-> "call"]

ResolveTemplate ==
  /\ templateFactory.pc = "call"
  /\ templateFactory' = resolveTemplate(templateFactory)
  /\ UNCHANGED <<routerVars, factoryCode, componentEl, wrapper, parentElement,
                 otherVars>>

NextTemplate == ResolveTemplate

\* One TemplateFactory, one placeholder.
SpecTemplate == InitTemplate /\ [][NextTemplate]_vars

\* ---------------------------------------------------------- DOM/Templates.ts
TemplateNames == {"list", "item"}

\* <template src="...">
Template(src) ==
  [k |-> "template", name |-> src, top |-> FALSE, id |-> 0, bound |-> 0]

\* What /templates/<src>.html evaluates to, flattened in document order: the
\* list holds two placeholders of the item, the item none.
TemplateOutput(src) ==
  IF src = "list"
  THEN <<El("ul"), Template("item"), Template("item")>>
  ELSE <<El("li")>>

\* The documents resolveTemplates is called on.
TemplateRoots ==
  {<<El("p")>>,
   <<Template("list")>>,
   <<Template("item"), El("p"), Template("list")>>}

\* The parser gives the n-th element of a markup the identity serial + n.
Numbered(nodes, serial) ==
  [i \in DOMAIN nodes |-> [nodes[i] EXCEPT !.id = serial + i]]

\* root.querySelectorAll("template[src]")
templateUpdateArr(tr) == SelectSeq(tr.root, LAMBDA n : n.k = "template")

\* A resolve that leaves the placeholder where it is.
resolveInRootKeeps(tr, el) == tr

\* TemplateFactory.resolve(templateEl) as the document sees it: the elements
\* the template evaluates to are inserted before the placeholder, and the
\* placeholder is removed.
resolveInRoot(tr, el) ==
  LET i == CHOOSE j \in DOMAIN tr.root : tr.root[j].id = el.id
      out == Numbered(TemplateOutput(el.name), tr.serial)
  IN  [tr EXCEPT !.root = SubSeq(@, 1, i - 1) \o out \o SubSeq(@, i + 1, Len(@)),
                 !.serial = @ + Len(out)]

\* Templates.resolveTemplates(root): one evaluation of the while condition,
\* or one round of the for loop up to its await.
resolveTemplates(tr) ==
  IF tr.pc = "while"
  THEN LET arr == templateUpdateArr(tr) IN
       IF Len(arr) > 0
       THEN [tr EXCEPT !.templatePlaceholders = arr, !.pc = "for"]
       ELSE [tr EXCEPT !.pc = "done"]
  ELSE IF tr.templatePlaceholders = <<>> THEN [tr EXCEPT !.pc = "while"]
  ELSE LET el == Head(tr.templatePlaceholders) IN
       IF el.name \in tr.templateLibrary
       THEN [resolveInRoot(tr, el) EXCEPT !.templatePlaceholders = Tail(@)]
       ELSE [tr EXCEPT !.pc = "await"]

\* The response to the fetch of TemplateFactory.new arrives: the factory
\* resolves the placeholder and enters the library, or new throws.
templateFetched(tr, ok) ==
  LET el == Head(tr.templatePlaceholders) IN
  IF ~ok THEN [tr EXCEPT !.pc = "rejected"]
  ELSE [resolveInRoot([tr EXCEPT !.templateLibrary = @ \cup {el.name}], el)
          EXCEPT !.templatePlaceholders = Tail(@), !.pc = "for"]

\* What a step of resolveTemplates leaves alone.
notTemplates == <<routerVars, factoryVars, site, effectiveType, timingVars>>

TemplateLoop ==
  /\ templateResolution.pc \in {"while", "for"}
  /\ templateResolution' = resolveTemplates(templateResolution)
  /\ UNCHANGED notTemplates

\* The server answers the fetch of a template with its text.
TemplateAnswered ==
  /\ templateResolution.pc = "await"
  /\ templateResolution' = templateFetched(templateResolution, TRUE)
  /\ UNCHANGED notTemplates

\* The server answers the fetch of a component fragment with its text.
ComponentAnswered ==
  /\ NoReaction
  /\ \E c \in DOMAIN calls :
       /\ calls[c].pc = "comp"
       /\ Commit(drop(componentFetched(St, c, TRUE), c))

\* A Router is constructed on either site, and resolveTemplates is called on
\* a document.
InitResolution ==
  /\ site \in {"plain", "linked"}
  /\ FastConnection
  /\ NoTiming
  /\ \E path \in Pages, sd \in BOOLEAN : InitAs(constructor(path, sd))
  /\ NoFactory
  /\ \E root \in TemplateRoots :
       templateResolution =
         [root |-> Numbered(root, 0), templateLibrary |-> {},
          templatePlaceholders |-> <<>>, pc |-> "while", serial |-> Len(root)]

NextResolution ==
  \/ PageFetched
  \/ ComponentAnswered
  \/ InjectThen
  \/ TemplateLoop
  \/ TemplateAnswered

\* One resolveComponents pass after the other and one resolveTemplates pass,
\* with every fragment fetch succeeding.
SpecResolution == InitResolution /\ [][NextResolution]_vars

\* ------------------------------------------------ cyclic fragments
\* A pass with a guard against the identifiers it has fetched already.
componentStepGuarded(s, c) ==
  LET call == s.calls[c]
      el == Head(call.arr)
      r == resolve(s, el)
  IN  IF call.pc = "comp"
      THEN IF r.threw THEN settle(r.s, c, FALSE, "resolve")
           ELSE [r.s EXCEPT !.componentLibrary = @ \cup {el.name},
                            !.calls[c].arr = Tail(@),
                            !.calls[c].pc = "loop"]
      ELSE IF call.arr = <<>>
      THEN IF Len(updateArr(s)) > 0
           THEN [s EXCEPT !.calls[c].arr = updateArr(s)]
           ELSE settle(s, c, TRUE, "none")
      ELSE settle(s, c, FALSE, "resolve")

\* Components.resolveComponents(root), one round of its loops at a time.
\* pc "comp": the awaited fragment has arrived, it replaces the placeholder
\* and enters the library.  pc "loop": the for loop visits the next
\* placeholder of the scan, or the while loop scans again.
componentStep(s, c) ==
  LET call == s.calls[c]
      el == Head(call.arr)
      r == resolve(s, el)
  IN  IF call.pc = "comp"
      THEN IF r.threw THEN settle(r.s, c, FALSE, "resolve")
           ELSE [r.s EXCEPT !.componentLibrary = @ \cup {el.name},
                            !.calls[c].arr = Tail(@),
                            !.calls[c].pc = "loop"]
      ELSE IF call.arr = <<>>
      THEN IF Len(updateArr(s)) > 0
           THEN [s EXCEPT !.calls[c].arr = updateArr(s)]
           ELSE settle(s, c, TRUE, "none")
      ELSE IF el.name \in s.componentLibrary
      THEN IF r.threw THEN settle(r.s, c, FALSE, "resolve")
           ELSE [r.s EXCEPT !.calls[c].arr = Tail(@)]
      ELSE [s EXCEPT !.calls[c].pc = "comp",
                     !.calls[c].reqs = @ + 1,
                     !.calls[c].cf = Append(@, el.name)]

ComponentStep ==
  /\ NoReaction
  /\ \E c \in DOMAIN calls :
       /\ calls[c].pc \in {"comp", "loop"}
       /\ Commit(drop(componentStep(St, c), c))

\* A Router is constructed on a site whose fragments reference themselves.
InitCycle ==
  /\ site \in {"selfref", "cycle"}
  /\ FastConnection
  /\ NoTiming
  /\ NoTemplates
  /\ \E path \in Pages, sd \in BOOLEAN : InitAs(constructor(path, sd))
  /\ NoFactory

NextCycle ==
  \/ PageFetched
  \/ ComponentStep
  \/ InjectThen
  \/ AddEventListener

\* The first navigation on a site with cyclic fragments; every fragment
\* fetch succeeds.
SpecCycle == InitCycle /\ [][NextCycle]_vars

\* ------------------------------------------------------------------ Timing
\* A JavaScript number of 32 bits and more is kept as <<hi, lo>>, which
\* stands for hi * 65536 + lo with lo in 0..65535: hash returns values up to
\* 2^32 - 1, hashAsync values from -2^31 on.
Word == 65536

\* The 16 bits w read as a signed number.
Int16(w) == IF w >= 32768 THEN w - Word ELSE w

\* callback.toString() as char codes: "()=>1" and "()=>2".
Callbacks == {<<40, 41, 61, 62, 49>>, <<40, 41, 61, 62, 50>>}

\* new Uint16Array(await crypto.subtle.digest("SHA-1", encode(str))): the
\* SHA-1 digests of the two texts, read as ten little-endian words.
digest(str) ==
  IF str = <<40, 41, 61, 62, 49>>
  THEN <<1310, 48163, 45016, 56204, 3138, 2424, 54824, 49957, 13260, 57215>>
  ELSE <<437, 30579, 26183, 7840, 63843, 39570, 57656, 23999, 50587, 33514>>

RECURSIVE hashLoop(_, _, _)
\* The loop of hash: hash = (hash << 5) - hash + char; hash = hash & hash,
\* that is 31 * hash + char cut to 32 bits, on the two halves of hash.
hashLoop(str, i, h) ==
  IF i > Len(str) THEN h
  ELSE LET t == 31 * h[2] + str[i]
       IN  hashLoop(str, i + 1, <<(31 * h[1] + t \div Word) % Word, t % Word>>)

\* hash(value), allowNegative = false: the signed 32 bits plus 0x80000000.
hash(str) ==
  IF Len(str) = 0 THEN <<0, 0>>
  ELSE LET h == hashLoop(str, 1, <<0, 0>>)
       IN  <<Int16(h[1]) + 32768, h[2]>>

RECURSIVE hashAsyncLoop(_, _, _)
\* The forEach of hashAsync: hash <<= 16 keeps the low word of hash as the
\* signed high word, hash += val puts val below it.
hashAsyncLoop(vals, i, h) ==
  IF i > Len(vals) THEN h
  ELSE hashAsyncLoop(vals, i + 1, <<Int16(h[2]), vals[i]>>)

\* hashAsync(value), once its promise has resolved.
hashAsync(str) == hashAsyncLoop(digest(str), 1, <<0, 0>>)

\* The timers of delay key that are pending.
Pending(key) == {tm \in timers : hashAsync(timingCalls[tm.call].callback) = key}

TimingCall(fn, callback, err) ==
  [fn |-> fn, callback |-> callback, err |-> err,
   saw |-> {tm.id : tm \in Pending(hashAsync(callback))},
   late |-> fired # <<>>]

\* The body doOnce and doOnceSync share, for call n, its err and its key.
once(n, err, idempotency) ==
  IF idempotency \notin doOnceIdempotency
  THEN /\ doOnceIdempotency' = doOnceIdempotency \cup {idempotency}
       /\ ran' = Append(ran, [call |-> n, what |-> "callback"])
  ELSE /\ doOnceIdempotency' = doOnceIdempotency
       /\ ran' = Append(ran, [call |-> n,
                              what |-> IF err THEN "err" ELSE "none"])

\* doOnce(callback, err): the executor asks for the hash and returns.
DoOnce ==
  /\ Len(timingCalls) < MaxTimingCalls
  /\ \E callback \in Callbacks, err \in BOOLEAN :
       timingCalls' = Append(timingCalls, TimingCall("doOnce", callback, err))
  /\ digests' = Append(digests, Len(timingCalls) + 1)
  /\ UNCHANGED <<doOnceIdempotency, retriggerableDelayCache, timers, ran,
                 fired>>

\* doOnceSync(callback, err)
DoOnceSync ==
  /\ Len(timingCalls) < MaxTimingCalls
  /\ \E callback \in Callbacks, err \in BOOLEAN :
       /\ timingCalls' =
            Append(timingCalls, TimingCall("doOnceSync", callback, err))
       /\ once(Len(timingCalls) + 1, err, hash(callback))
  /\ UNCHANGED <<retriggerableDelayCache, digests, timers, fired>>

\* retriggerableDelay(callback, ms): the executor asks for the hash and
\* returns.  ms is any delay: a pending timer may run at any later moment.
RetriggerableDelay ==
  /\ Len(timingCalls) < MaxTimingCalls
  /\ \E callback \in Callbacks :
       timingCalls' =
         Append(timingCalls, TimingCall("retriggerableDelay", callback, FALSE))
  /\ digests' = Append(digests, Len(timingCalls) + 1)
  /\ UNCHANGED <<doOnceIdempotency, retriggerableDelayCache, timers, ran,
                 fired>>

\* The then of retriggerableDelay for call n: clearTimeout of the cached
\* timer, setTimeout (the timer takes the number of the call as its id).
retrigger(n, delayId) ==
  LET cleared == IF delayId \in DOMAIN retriggerableDelayCache
                 THEN {tm \in timers : tm.id # retriggerableDelayCache[delayId]}
                 ELSE timers
  IN  /\ timers' = cleared \cup {[id |-> n, call |-> n]}
      /\ retriggerableDelayCache' =
           [k \in DOMAIN retriggerableDelayCache \cup {delayId} |->
              IF k = delayId THEN n ELSE retriggerableDelayCache[k]]

\* The promise of hashAsync resolves for the oldest call that waits for it.
Hashed ==
  /\ digests # <<>>
  /\ digests' = Tail(digests)
  /\ LET n == Head(digests)
         key == hashAsync(timingCalls[n].callback)
     IN  IF timingCalls[n].fn = "doOnce"
         THEN /\ once(n, timingCalls[n].err, key)
              /\ UNCHANGED <<retriggerableDelayCache, timers>>
         ELSE /\ retrigger(n, key)
              /\ UNCHANGED <<doOnceIdempotency, ran>>
  /\ UNCHANGED <<timingCalls, fired>>

\* A timer of window.setTimeout runs its callback.
TimerFires ==
  /\ \E tm \in timers :
       /\ timers' = timers \ {tm}
       /\ fired' = Append(fired, tm.call)
  /\ UNCHANGED <<doOnceIdempotency, retriggerableDelayCache, timingCalls,
                 digests, ran>>

InitTiming ==
  /\ site = "plain"
  /\ FastConnection
  /\ InitAs(Blank(FALSE))
  /\ NoFactory
  /\ NoTiming
  /\ NoTemplates

\* What a step of Timing leaves alone.
notTiming == <<routerVars, factoryVars, site, effectiveType,
               templateResolution>>

NextTiming ==
  \/ (DoOnce /\ UNCHANGED notTiming)
  \/ (DoOnceSync /\ UNCHANGED notTiming)
  \/ (RetriggerableDelay /\ UNCHANGED notTiming)
  \/ (Hashed /\ UNCHANGED notTiming)
  \/ (TimerFires /\ UNCHANGED notTiming)

\* The Timing module alone.
SpecTiming == InitTiming /\ [][NextTiming]_vars


\* ------------------------------------------------------------------ claims
RECURSIVE Expand(_)
\* The markup with every placeholder replaced by its fragment, to any depth.
Expand(nodes) ==
  IF nodes = <<>> THEN <<>>
  ELSE IF Head(nodes).k = "ph"
       THEN Expand(FragmentCode(Head(nodes).name)) \o Expand(Tail(nodes))
       ELSE <<Head(nodes)>> \o Expand(Tail(nodes))

\* The markup without the listeners of its anchors.
Unbound(nodes) == [i \in DOMAIN nodes |-> [nodes[i] EXCEPT !.bound = 0]]

\* The mount holds the content of route p, every component resolved.
Mounted(p) ==
  /\ mount.src = pageTitleToStoreLocation(p)
  /\ Unbound(mount.nodes) = Expand(PageHtml(p))

Done == {done[i] : i \in DOMAIN done}
Calls == {calls[c] : c \in DOMAIN calls}

UnknownRouteMountsFallback ==
  \A d \in Done :
    (d.kind = "unknown" /\ d.solo /\ d.r # "none" /\ d.fail # "page")
    => /\ mount.src = pageTitleToStoreLocation(fallbackSite)
       /\ lastLocation = fallbackSite
       /\ d.r = "true" => Mounted(fallbackSite)

UnknownRouteMountsFallbackWitness ==
  \E d \in Done :
    /\ d.kind = "unknown" /\ d.solo /\ d.r = "true" /\ d.by = "user"
    /\ Mounted(fallbackSite) /\ d.pre.lastLocation = "about"

\* C3: every promise returned by setPage is resolved, not pending and not
\* rejected, when the call has nothing left to run.
PromiseResolves == \A d \in Done : d.promise = "resolved"

\* C4: a failed injection of a sitemap route other than the fallback makes
\* the Router call setPage(fallbackSite).
FailureTriesFallback ==
  \A d \in Done :
    (d.kind = "valid" /\ d.page # fallbackSite /\ d.r = "false") => d.spawned

\* C5: when the page fetch of setPage(R) fails, the mount, lastLocation, the
\* title, the marker classes and the history are what they were before the
\* call, and the promise has resolved.
FailedFetchChangesNothing ==
  \A d \in Done :
    (d.kind = "valid" /\ d.solo /\ d.fail = "page")
    => Snap(St) = d.pre /\ d.promise = "resolved"

FailedFetchChangesNothingWitness ==
  \E d \in Done :
    /\ d.kind = "valid" /\ d.solo /\ d.fail = "page"
    /\ d.page # fallbackSite /\ lastLocation = fallbackSite
    /\ Mounted(fallbackSite)

\* C6: a setPage(R) called while R is the current page issues no network
\* request.
RepeatIssuesNoRequest ==
  \A d \in Calls \cup Done : d.repeat => d.reqs = 0

\* C7: a setPage that a listener of 'inject' cancels requests no injection,
\* writes no history entry, leaves the mount, lastLocation, the title and the
\* marker classes as they were, fires no 'injected' event, and its promise
\* resolves.
CancelAborts ==
  \A d \in Done :
    d.canceled => /\ Snap(St) = d.pre
                  /\ d.reqs = 0 /\ d.r = "none" /\ ~d.wrote
                  /\ d.promise = "resolved"

CancelAbortsWitness ==
  \E d \in Done : d.canceled /\ d.page # lastLocation /\ lastLocation # NULL

\* C8: no setPage that handles a popstate, and no fallback attempt such a
\* call triggers, calls history.pushState or history.replaceState.
PopStateWritesNoHistory ==
  \A d \in Calls \cup Done : d.pop => ~d.wrote

\* C9: when resolveComponents completes successfully, the mount contains no
\* component placeholder.
ResolvedLeavesNoPlaceholder ==
  /\ \A d \in Calls : (d.pc = "ready" /\ d.r = "true") => NumPh(mount.nodes) = 0
  /\ \A d \in Done : (d.kind = "unknown" /\ d.r = "true")
                       => NumPh(mount.nodes) = 0

ResolvedLeavesNoPlaceholderWitness ==
  \E d \in Calls :
    /\ d.pc = "ready" /\ d.r = "true" /\ d.page = "about" /\ ~d.solo
    /\ Mounted("about")

\* C10: a resolution pass fetches a fragment only when the Fragment Cache
\* does not hold its identifier, and never fetches one identifier twice.
FetchOnlyOnMiss ==
  [][\A c \in DOMAIN calls' :
       LET old == IF c \in DOMAIN calls THEN calls[c].cf ELSE <<>>
           new == calls'[c].cf
       IN  Len(new) > Len(old) =>
             /\ Len(new) = Len(old) + 1
             /\ new[Len(new)] \notin componentLibrary'
             /\ \A i \in DOMAIN old : old[i] # new[Len(new)]]_vars

FetchOnlyOnMissWitness ==
  \E d \in Calls :
    /\ d.pc = "ready" /\ d.r = "true" /\ d.page = "home"
    /\ d.cf = <<"card">> /\ Mounted("home")

\* The whole value is a reference {name}.
IsReference(value) ==
  Len(value) >= 2 /\ value[1] = "{" /\ value[Len(value)] = "}"

Referred(value) == SubSeq(value, 2, Len(value) - 1)

Resolved == wrapper # <<>>

\* <component template="x" v="A">B</component>
PlaceholderVA ==
  [attributes |-> <<Attr("template", <<"x">>), Attr("v", <<"A">>)>>,
   innerHTML |-> <<"B">>]

\* C11 (as stated): <div attr="{v}">{content}</div> resolves to
\* <div attr="A">B</div>, and an element that refers to the variable content,
\* in whatever attribute, gets the placeholder's inner markup as its own.
ContentVariableSelectsInner ==
  Resolved =>
    /\ (/\ factoryCode = <<Element(<<Attr("attr", <<"{", "v", "}">>)>>,
                                   <<"{", "content", "}">>, 0)>>
        /\ componentEl = PlaceholderVA)
       => /\ wrapper[1].attributes = <<Attr("attr", <<"A">>)>>
          /\ innerHTML(wrapper, 1) = <<"B">>
    /\ \A j \in DOMAIN factoryCode :
         \A i \in DOMAIN factoryCode[j].attributes :
           factoryCode[j].attributes[i].value = <<"{", "content", "}">>
           => innerHTML(wrapper, j) = componentEl.innerHTML

\* C11 (amended): <div attr="{v}" content="{content}"></div> resolves to
\* <div attr="A" content="{content}">B</div>.  It is the attribute's name
\* content that selects the replacement of the inner markup: an element with
\* an attribute content="{name}", name a key of the data map, gets the value
\* of name as its inner markup, and no other element's inner markup changes;
\* the variable content is the placeholder's inner markup.
ContentAttributeSelectsInner ==
  Resolved =>
    /\ (/\ factoryCode = <<Element(<<Attr("attr", <<"{", "v", "}">>),
                                     Attr("content", <<"{", "content", "}">>)>>,
                                   <<>>, 0)>>
        /\ componentEl = PlaceholderVA)
       => /\ wrapper[1].attributes =
               <<Attr("attr", <<"A">>), Attr("content", <<"{", "content", "}">>)>>
          /\ innerHTML(wrapper, 1) = <<"B">>
    /\ \A j \in DOMAIN factoryCode :
         LET attrs == factoryCode[j].attributes
             sel == {i \in DOMAIN attrs :
                       /\ attrs[i].name = "content"
                       /\ IsReference(attrs[i].value)
                       /\ Referred(attrs[i].value) \in DOMAIN attrMap(componentEl)}
         IN  /\ \A i \in sel :
                  /\ wrapper[j].replaced
                  /\ innerHTML(wrapper, j) =
                       IF Referred(attrs[i].value) = <<"content">>
                       THEN componentEl.innerHTML
                       ELSE attrMap(componentEl)[Referred(attrs[i].value)]
             /\ sel = {} => /\ ~wrapper[j].replaced
                            /\ innerHTML(wrapper, j) = innerHTML(factoryCode, j)

ContentAttributeSelectsInnerWitness ==
  /\ Resolved
  /\ componentEl = PlaceholderVA
  /\ factoryCode = <<Element(<<Attr("attr", <<"{", "v", "}">>),
                               Attr("content", <<"{", "content", "}">>)>>,
                             <<>>, 0)>>
  /\ innerHTML(wrapper, 1) = <<"B">>

\* C12 (as stated): every attribute of the fragment whose whole value is
\* {name} holds, after resolve, the data-map value of name, or "undefined"
\* when name is no key of the data map; every other attribute is unchanged.
ReferenceBecomesValue ==
  Resolved =>
    \A j \in DOMAIN factoryCode :
      /\ Len(wrapper[j].attributes) = Len(factoryCode[j].attributes)
      /\ \A i \in DOMAIN factoryCode[j].attributes :
           LET old == factoryCode[j].attributes[i]
               new == wrapper[j].attributes[i]
               map == attrMap(componentEl)
           IN  /\ new.name = old.name
               /\ new.value =
                    IF IsReference(old.value)
                    THEN IF Referred(old.value) \in DOMAIN map
                         THEN map[Referred(old.value)]
                         ELSE <<"undefined">>
                    ELSE old.value

\* C12 (amended): the same, except for an attribute named content that
\* refers to a key of the data map: its value is left as it is (the value of
\* the key goes to the element's inner markup).
ReferenceBecomesValueButContent ==
  Resolved =>
    \A j \in DOMAIN factoryCode :
      /\ Len(wrapper[j].attributes) = Len(factoryCode[j].attributes)
      /\ \A i \in DOMAIN factoryCode[j].attributes :
           LET old == factoryCode[j].attributes[i]
               new == wrapper[j].attributes[i]
               map == attrMap(componentEl)
           IN  /\ new.name = old.name
               /\ new.value =
                    IF IsReference(old.value)
                    THEN IF Referred(old.value) \in DOMAIN map
                         THEN IF old.name = "content" THEN old.value
                              ELSE map[Referred(old.value)]
                         ELSE <<"undefined">>
                    ELSE old.value

ReferenceBecomesValueButContentWitness ==
  /\ Resolved
  /\ Len(wrapper) = 2
  /\ factoryCode[1].attributes = <<Attr("content", <<"{", "content", "}">>)>>
  /\ wrapper[1].attributes = factoryCode[1].attributes
  /\ factoryCode[2].attributes =
       <<Attr("id", <<"{", "v", "}">>), Attr("attr", <<"{", "v">>)>>
  /\ wrapper[2].attributes =
       <<Attr("id", <<"undefined">>), Attr("attr", <<"{", "v">>)>>

\* The texts of the childless elements named n, in document order.
TextsOf(els, n) ==
  LET named == SelectSeq(els, LAMBDA el : el.leaf /\ el.nodeName = n
                                            /\ el.text # "")
  IN  [i \in DOMAIN named |-> named[i].text]

ScriptsStayOut ==
  (templateFactory.pc = "return" /\ templateFactory.parent # <<>>) =>
    templateFactory.parent =
      <<Node("H1", 0)>> \o
      SelectSeq(templateFactory.output, LAMBDA ch : ch.tagName # "SCRIPT") \o
      <<Node("FOOTER", 0)>>

\* C15: an inject that needs a fetch leaves the mount as it is when it
\* issues the request, and when the fetch rejects, the response is not ok or
\* its body cannot be read, its outcome is false and the mount is still as it
\* was.
FailedFetchKeepsMount ==
  [][/\ \A c \in DOMAIN calls' :
          (calls'[c].pc = "fetch"
             /\ (c \notin DOMAIN calls \/ calls[c].pc # "fetch"))
          => mount' = mount
     /\ \A c \in DOMAIN calls :
          calls[c].pc = "fetch" =>
            LET after == IF c \in DOMAIN calls' THEN {calls'[c]}
                         ELSE {done'[i] : i \in DOMAIN done'}
            IN  \A a \in after :
                  a.fail = "page" => a.r = "false" /\ mount' = mount]_vars

FailedFetchKeepsMountWitness ==
  \E d \in Calls :
    /\ d.pc = "ready" /\ d.fail = "page" /\ d.r = "false"
    /\ d.page = "about" /\ ~d.solo /\ Mounted("home")

\* C16: an inject reports true only in the step in which its resolution pass
\* finds no placeholder left, reports false when a fragment fetch of the pass
\* fails or a resolve throws, and has reported nothing while its pass waits
\* for a fragment.
TrueOnlyAfterResolution ==
  [][/\ \A c \in DOMAIN calls' :
          (calls'[c].r = "true" /\ (c \notin DOMAIN calls \/ calls[c].r = "none"))
          => NumPh(mount'.nodes) = 0 /\ calls'[c].pc = "ready"
     /\ \A i \in DOMAIN done' :
          done'[i].r = "true" => NumPh(mount'.nodes) = 0
     /\ \A c \in DOMAIN calls' :
          /\ calls'[c].pc \in {"fetch", "comp"} => calls'[c].r = "none"
          /\ calls'[c].fail \in {"component", "resolve"}
             => calls'[c].r = "false"
     /\ \A i \in DOMAIN done' :
          done'[i].fail \in {"component", "resolve"} => done'[i].r = "false"
    ]_vars

TrueOnlyAfterResolutionWitness ==
  \E d \in Calls :
    /\ d.pc = "ready" /\ d.r = "true" /\ d.page = "about"
    /\ d.cf = <<"nav", "card">> /\ Mounted("about")

\* C17: once an inject has mounted a text it fetched, permaCache holds that
\* text under the location, and no later inject of the location that is
\* mounted issues a request.
InjectFillsCache ==
  [][/\ \A c \in DOMAIN calls :
          (calls[c].pc = "fetch" /\ c \in DOMAIN calls'
             /\ calls'[c].pc # "fetch" /\ calls'[c].fail # "page")
          => calls[c].content \in permaCache'
     /\ \A c \in DOMAIN calls' :
          (calls'[c].pc = "fetch"
             /\ (c \notin DOMAIN calls \/ calls[c].pc # "fetch"))
          => calls'[c].content # mount.src]_vars

\* C18: an inject of the location whose injection was the last to succeed
\* issues no request, starts no resolution pass, leaves the mount as it is
\* and reports true.
RepeatedInjectIsNoOp ==
  /\ \A d \in Calls :
       d.repeat => d.pc \notin {"fetch", "comp"} /\ d.r \in {"none", "true"}
  /\ \A d \in Done :
       d.repeat => /\ d.r = "true" /\ d.reqs = 0 /\ d.cf = <<>>
                   /\ d.solo => mount = d.pre.mount

\* C19: the step that ends a preload adds at most the preloaded location to
\* permaCache and leaves the mount, lastLocation, the history, the marker
\* classes, the title, the listener table and the navigations in flight as
\* they are.
PreloadTouchesCacheOnly ==
  [][(preloads' # preloads /\ preloads' \subseteq preloads)
     => /\ permaCache \subseteq permaCache'
        /\ permaCache' \ permaCache \subseteq preloads \ preloads'
        /\ UNCHANGED <<mount, lastLocation, hist, hpos, classes, title,
                       eventMap, calls, componentLibrary, nInjected>>]_vars

PreloadTouchesCacheOnlyWitness ==
  /\ permaCache = {pageTitleToStoreLocation("about")}
  /\ preloads = {}
  /\ Mounted("home") /\ lastLocation = "home"
  /\ eventMap["injected"] # <<>>

\* C20: when a setPage whose injection succeeded has finished, every anchor
\* of the mount whose route is in the sitemap has a listener of the Router,
\* and no anchor whose route is not in the sitemap has one.
AnchorsIntercepted ==
  \A d \in Done :
    (d.r = "true" /\ d.solo) =>
      \A i \in DOMAIN mount.nodes :
        mount.nodes[i].k = "a" =>
          IF mount.nodes[i].name \in Sitemap
          THEN mount.nodes[i].bound >= 1
          ELSE mount.nodes[i].bound = 0

\* C21: on a device without saveData, when the setPage call of the
\* constructor has nothing left to run its promise has resolved and a
\* preload request has been issued for every sitemap route other than the
\* current one, whatever the initial path was.
PreloadsFollowSettling ==
  \A d \in Done :
    (d.by = "ctor" /\ ~saveData) =>
      /\ d.promise = "resolved"
      /\ \A el \in Sitemap \ {lastLocation} :
           pageTitleToStoreLocation(el) \in preloads

\* C22: background preloading issues no request for the route that is
\* displayed, and no request at all on a device that reports saveData or a
\* connection of class slow-2g, 2g or 3g.
PreloadSparesCurrent ==
  /\ (saveData \/ effectiveType \in {"slow-2g", "2g", "3g"}) => preloads = {}
  /\ \A d \in Done :
       (d.by = "ctor" /\ lastLocation # NULL) =>
         pageTitleToStoreLocation(lastLocation) \notin preloads

\* C23: of the doOnce and doOnceSync calls with one callback text only the
\* first to run executes the callback; every later one does not, and
\* executes err when it was given one.
OnceInTotal ==
  \A i, j \in DOMAIN ran :
    (/\ i < j
     /\ timingCalls[ran[i].call].callback = timingCalls[ran[j].call].callback)
    => /\ ran[j].what # "callback"
       /\ timingCalls[ran[j].call].err => ran[j].what = "err"

\* The retriggerableDelay calls made with callback text cb.
Retriggers(cb) ==
  {n \in DOMAIN timingCalls :
     timingCalls[n].fn = "retriggerableDelay" /\ timingCalls[n].callback = cb}

\* C24: of the timers of one callback key at most one is pending; a timer
\* that was pending when retriggerableDelay was called never runs; and when
\* every call was made before any timer ran, only the timer of the last call
\* runs the callback.
RetriggerResetsTimer ==
  \A cb \in Callbacks :
    /\ Cardinality(Pending(hashAsync(cb))) <= 1
    /\ \A n \in Retriggers(cb), i \in DOMAIN fired :
         fired[i] \notin timingCalls[n].saw
    /\ (\A n \in Retriggers(cb) : ~timingCalls[n].late) =>
         \A i \in DOMAIN fired :
           fired[i] \in Retriggers(cb) =>
             \A n \in Retriggers(cb) : n <= fired[i]

\* C25: a listener removeEventListener was called for, by the caller or by
\* the abort of its signal, is no longer in the listener table of its type.
RemovedListenerIsGone ==
  \A x \in removals :
    \A i \in DOMAIN eventMap[x.type] : eventMap[x.type][i] # x.listener

\* C26: while the injection of a setPage call is in flight (its fetch or
\* its component resolution has not completed) the call has updated neither
\* the marker classes, nor the history, nor lastLocation, and has fired no
\* 'injected' event, on the valid and on the unknown-route path.
UpdatesFollowInjection ==
  \A c \in DOMAIN calls :
    (/\ calls[c].solo
     /\ calls[c].pc \in {"fetch", "comp"}
     /\ calls[c].r = "none")
    => /\ classes = calls[c].pre.classes
       /\ hist = calls[c].pre.hist
       /\ hpos = calls[c].pre.hpos
       /\ lastLocation = calls[c].pre.lastLocation
       /\ nInjected = calls[c].pre.nInjected

\* C27: no two adjacent entries of the browser history store the same route
\* name.
NoAdjacentDuplicates ==
  \A i \in 1..(Len(hist) - 1) : hist[i] # hist[i + 1]

\* C28: a setPage call for a target outside the sitemap that writes the
\* history stores the fallback route, and writes only if the fallback is not
\* the route on display; every entry the Router has written stores a route of
\* the sitemap.
HistoryStoresRoutes ==
  /\ \A d \in Done \cup Calls :
       (d.kind = "unknown" /\ d.solo /\ d.wrote) =>
         /\ hist[hpos] = fallbackSite
         /\ d.pre.lastLocation # fallbackSite
  /\ \A i \in DOMAIN hist : hist[i] # NULL => hist[i] \in Sitemap

\* C29: whenever lastLocation is a route name, the marker element carries
\* exactly one class named after a sitemap route, and it is lastLocation.
MarkerClassIsLocation ==
  lastLocation # NULL => classes = {lastLocation}

RECURSIVE Unresolved(_)
\* The resolutions a markup still needs: one for each placeholder it holds
\* and for each placeholder the fragments of those bring in.
Unresolved(nodes) ==
  IF nodes = <<>> THEN 0
  ELSE LET n == Head(nodes) IN
       (IF n.k = "ph" THEN 1 + Unresolved(FragmentCode(n.name))
        ELSE IF n.k = "template" THEN 1 + Unresolved(TemplateOutput(n.name))
        ELSE 0) + Unresolved(Tail(nodes))

\* The steps a resolveTemplates pass still has to go: four for each
\* resolution, and within one resolution the position in the loop.
TemplateSteps(tr) ==
  4 * Unresolved(tr.root) +
  (IF tr.pc = "await" THEN 0
   ELSE IF tr.pc = "while" THEN 2
   ELSE IF tr.templatePlaceholders = <<>> THEN 3 ELSE 1)

\* C30: the resolution loop terminates when no fragment refers to itself
\* and every fragment fetch succeeds.  A resolveComponents pass whose fetch
\* is answered ends or needs fewer resolutions than before, and every step
\* of a resolveTemplates pass lowers the number of steps it has to go, a
\* natural number: no pass takes more steps than that number says.
ResolutionTerminates ==
  [][/\ \A c \in DOMAIN calls :
          (/\ calls[c].pc = "comp"
           /\ c \in DOMAIN calls'
           /\ calls'[c].pc = "comp"
           /\ calls'[c].reqs > calls[c].reqs)
          => Unresolved(mount'.nodes) < Unresolved(mount.nodes)
     /\ (/\ templateResolution.pc \in {"while", "for", "await"}
         /\ templateResolution' # templateResolution)
        => \/ templateResolution'.pc = "done"
           \/ TemplateSteps(templateResolution') <
                TemplateSteps(templateResolution)]_vars

ResolutionTerminatesWitness ==
  /\ \E d \in Done : d.r = "true" /\ d.cf = <<"nav", "card">>
  /\ templateResolution.pc = "done"
  /\ templateResolution.templateLibrary = TemplateNames
  /\ \A i \in DOMAIN templateResolution.root :
       templateResolution.root[i].k # "template"

\* C31: a pass that has fetched a fragment of a reference cycle never ends:
\* its call stays in the resolution loop with the promise of inject and the
\* promise of setPage unsettled, and no call that started resolving is ever
\* finished.
CycleNeverSettles ==
  /\ \A d \in Done : d.cf = <<>>
  /\ \A c \in DOMAIN calls :
       calls[c].cf # <<>> =>
         /\ calls[c].pc \in {"comp", "loop"}
         /\ calls[c].r = "none"
         /\ calls[c].promise = "pending"

\* The loop is about to replace, from the library, a placeholder of a
\* fragment this pass has fetched and placed before.
CycleNeverSettlesWitness ==
  \E c \in DOMAIN calls :
    /\ calls[c].pc = "loop"
    /\ calls[c].arr # <<>>
    /\ Head(calls[c].arr).name \in componentLibrary
    /\ \E i \in DOMAIN calls[c].cf : calls[c].cf[i] = Head(calls[c].arr).name

\* C32: the step in which the fetch of a fragment fails ends the pass with
\* a negative result and leaves the document as it was: the expansions made
\* before stay, the placeholder whose fetch failed and the placeholders not
\* yet visited are still there.
FailedFetchKeepsExpansions ==
  [][\A c \in DOMAIN calls :
       (/\ calls[c].pc = "comp"
        /\ \/ c \in DOMAIN calls' /\ calls'[c].fail = "component"
           \/ /\ c \notin DOMAIN calls'
              /\ \E i \in DOMAIN done' :
                   done'[i].fail = "component" /\ done'[i].cf = calls[c].cf)
       => /\ mount' = mount
          /\ c \in DOMAIN calls' => calls'[c].r = "false"
          /\ \A i \in DOMAIN done' : done'[i].fail = "component"
                                       => done'[i].r = "false"]_vars

\* A pass has failed on its second fetch: the element of the first fragment
\* is in the mount next to the placeholder whose fetch failed.
FailedFetchKeepsExpansionsWitness ==
  \E c \in DOMAIN calls :
    /\ calls[c].fail = "component"
    /\ calls[c].r = "false"
    /\ Len(calls[c].cf) = 2
    /\ mount.src = calls[c].content
    /\ \E i \in DOMAIN mount.nodes :
         mount.nodes[i].k = "el" /\ mount.nodes[i].name = calls[c].cf[1]
    /\ \E i \in DOMAIN mount.nodes :
         mount.nodes[i].k = "ph" /\ mount.nodes[i].name = calls[c].cf[2]

\* C33: when two passes wait for the fetch of the same fragment, both having
\* missed the library, each answered fetch resolves the placeholder of its
\* pass and leaves the fragment in the library.
DuplicateFetchesResolveBoth ==
  [][\A c \in DOMAIN calls :
       (/\ calls[c].pc = "comp"
        /\ \E b \in DOMAIN calls \ {c} :
             /\ calls[b].pc = "comp"
             /\ Head(calls[b].arr).name = Head(calls[c].arr).name
        /\ c \in DOMAIN calls'
        /\ calls'[c] # calls[c]
        /\ calls'[c].fail # "component")
       => /\ calls'[c].fail # "resolve"
          /\ Head(calls[c].arr).name \in componentLibrary'
          /\ Head(calls[c].arr).id \in gone' \cup gone
             \/ \A i \in DOMAIN mount'.nodes :
                  mount'.nodes[i].id # Head(calls[c].arr).id]_vars

\* C34: the step in which the injection of a setPage call completes with
\* success, whatever other calls were issued since, applies that call's
\* updates: lastLocation and the marker class become the route the call
\* shows, the history entry is written if the call asked for one, and one
\* 'injected' event is fired; so lastLocation follows the injection that
\* completed last.
StaleCallsStillApply ==
  [][\A c \in DOMAIN calls :
       LET route == IF calls[c].kind = "valid" THEN calls[c].page
                    ELSE fallbackSite
       IN  (/\ c \notin DOMAIN calls'
            /\ \/ calls[c].pc = "ready" /\ calls[c].r = "true"
               \/ /\ calls[c].kind = "unknown"
                  /\ \E i \in DOMAIN done' :
                       done'[i].kind = "unknown" /\ done'[i].r = "true")
           => /\ lastLocation' = route
              /\ route \in classes'
              /\ nInjected' = nInjected + 1
              /\ (calls[c].setState /\ lastLocation # route)
                   => hist'[hpos'] = route]_vars

\* The part of C34 that the code keeps: the same for the calls whose target
\* is a route of the sitemap.
StaleRouteCallsStillApply ==
  [][\A c \in DOMAIN calls :
       (/\ c \notin DOMAIN calls'
        /\ calls[c].pc = "ready"
        /\ calls[c].r = "true")
       => /\ lastLocation' = calls[c].page
          /\ calls[c].page \in classes'
          /\ nInjected' = nInjected + 1
          /\ (calls[c].setState /\ lastLocation # calls[c].page)
               => hist'[hpos'] = calls[c].page]_vars

\* C35: when no setPage call is in flight and lastLocation is a route, the
\* mount holds the content of that route, and the current history entry and
\* the marker class name it.
IdleStateIsConsistent ==
  (DOMAIN calls = {} /\ lastLocation \in Sitemap)
  => /\ Mounted(lastLocation)
     /\ hist[hpos] = lastLocation
     /\ lastLocation \in classes

\* C36: when ComponentFactory.resolve is over, it has returned, the first
\* top-level element of the fragment stands where the placeholder stood, no
\* other element was added, the former siblings are where they were and the
\* placeholder is no longer a child of its parent.
ResolveReplacesByOne ==
  parentElement.pc \in {"returned", "threw"} =>
    /\ parentElement.pc = "returned"
    /\ Len(parentElement.children) = Len(parentElement.before)
    /\ Len(wrapper) > 0 => parentElement.children[parentElement.at] = wrapper[1]
    /\ \A k \in DOMAIN parentElement.children \ {parentElement.at} :
         parentElement.children[k] = parentElement.before[k]
    /\ \A k \in DOMAIN parentElement.children :
         parentElement.children[k] # placeholderElement(componentEl)

\* C37: a step that dispatches an event leaves no once-listener of that
\* event's type in the table (each listener in the table at the dispatch
\* is invoked, there being at most one), and takes no other listener out.
OnceListenerRunsOnce ==
  [][\A type \in EventTypes :
       ((type = "injected" /\ nInjected' > nInjected)
          \/ (type = "inject" /\ nCalls' > nCalls))
       => /\ \A i \in DOMAIN eventMap[type] :
               eventMap[type][i].once
               => \A j \in DOMAIN eventMap'[type] :
                    eventMap'[type][j] # eventMap[type][i]
          /\ \A i \in DOMAIN eventMap[type] :
               ~eventMap[type][i].once
               => \E j \in DOMAIN eventMap'[type] :
                    eventMap'[type][j] = eventMap[type][i]]_vars

\* C38: a step that dispatches 'inject' to a passive listener calling
\* preventDefault, or 'injected' to a listener calling preventDefault, does
\* not cancel the navigation: a call that ends in that step has not run the
\* cancel callback, its injection has run to its end and its promise is
\* settled.
CannotCancelIsHarmless ==
  [][(\/ /\ nCalls' > nCalls
         /\ \E i \in DOMAIN eventMap["inject"] :
              /\ eventMap["inject"][i].act = "preventDefault"
              /\ eventMap["inject"][i].passive
      \/ /\ nInjected' > nInjected
         /\ \E i \in DOMAIN eventMap["injected"] :
              eventMap["injected"][i].act = "preventDefault")
     => \A i \in DOMAIN done' :
          /\ ~done'[i].canceled
          /\ done'[i].r # "none"
          /\ done'[i].promise # "pending"]_vars

\* C39: every 'injected' event a listener is given carries the route that
\* getPage() returns at that moment, on the valid and on the unknown-route
\* path and whatever other calls are in flight.
ListenerSeesLocation ==
  \A i \in DOMAIN dispatched :
    dispatched[i].type = "injected"
    => dispatched[i].getPage = dispatched[i].value

\* While another call is in flight, a call for an unknown route has
\* handed 'injected' with the fallback route to a listener.
ListenerSeesLocationWitness ==
  /\ Cardinality(DOMAIN calls) >= 2
  /\ done = <<>>
  /\ \E c \in DOMAIN calls :
       /\ calls[c].kind = "unknown"
       /\ calls[c].pc = "fetch"
       /\ ~calls[c].solo
  /\ \E i \in DOMAIN dispatched :
       /\ dispatched[i].type = "injected"
       /\ dispatched[i].value = fallbackSite

\* C40: no anchor of the mount has more than one listener of the Router, so
\* that one activation of an anchor makes one setPage call.
AnchorsBoundOnce ==
  \A i \in DOMAIN mount.nodes :
    mount.nodes[i].k = "a" => mount.nodes[i].bound <= 1

====
